---- MODULE Spec2Model ----
(***************************************************************************)
(* Model of src/src/main.rs: the chain-ring / triangle renderer            *)
(* (render_frame, chain_ring, triangle, gradient) and the host event loop  *)
(* that drives it.                                                         *)
(*                                                                         *)
(* f32 values are modelled bit-exactly as sign / 24-bit mantissa /         *)
(* exponent triples with round-to-nearest-even arithmetic, so that step,   *)
(* frame_count and the rotations are the values the program computes.      *)
(* cos and sin are not evaluated: a point on a circle is kept as the       *)
(* triple (center, radius, radians) it is computed from.                   *)
(***************************************************************************)
EXTENDS Integers, Sequences, FiniteSets, TLC

(***************************************************************************)
(* f32 arithmetic.  A value is [s, m, e] = (-1)^s * m * 2^e with           *)
(* 2^23 <= m < 2^24, or m = 0 for zero.                                    *)
(***************************************************************************)
F32Zero == [s |-> 0, m |-> 0, e |-> 0]

\* F applied to the value of v: v is evaluated once, as a call evaluates its
\* argument before the body runs.
With(v, F(_)) == CHOOSE r \in {F(x) : x \in {v}} : TRUE

BitLen(n) == CHOOSE k \in 1..31 : 2^(k - 1) <= n /\ (k = 31 \/ n < 2^k)

\* r * 2^E with r <= 2^24: a carry out of the mantissa renormalises.
F32Pack(s, r, E) ==
    IF r = 2^24 THEN [s |-> s, m |-> 2^23, e |-> E + 1]
                ELSE [s |-> s, m |-> r, e |-> E]

\* Drops the k >= 1 low bits of M, rounding to nearest, ties to even.
F32RoundAt(s, M, E, sticky, k) ==
    F32Pack(s,
            (M \div 2^k)
              + (IF \/ M % 2^k > 2^(k - 1)
                    \/ /\ M % 2^k = 2^(k - 1)
                       /\ (sticky \/ (M \div 2^k) % 2 = 1)
                 THEN 1 ELSE 0),
            E + k)

F32RoundN(s, M, E, sticky, n) ==
    IF n <= 24 THEN [s |-> s, m |-> M * 2^(24 - n), e |-> E - (24 - n)]
               ELSE F32RoundAt(s, M, E, sticky, n - 24)

\* M * 2^E (plus a nonzero fraction below M's last bit when sticky) rounded
\* to nearest, ties to even.  0 < M < 2^31.
F32Round(s, M, E, sticky) == F32RoundN(s, M, E, sticky, BitLen(M))

\* `n as f32`
F32FromInt(n) ==
    IF n = 0 THEN F32Zero
    ELSE F32Round(IF n < 0 THEN 1 ELSE 0, IF n < 0 THEN -n ELSE n, 0, FALSE)

F32Neg(x) == IF x.m = 0 THEN x ELSE [x EXCEPT !.s = 1 - x.s]

\* The 48-bit product h * 2^24 + low, cut to 26 bits and a sticky bit.
F32MulHiLo(s, h, low, E) ==
    F32Round(s, (h + low \div 2^24) * 4 + (low % 2^24) \div 2^22, E,
             (low % 2^24) % 2^22 # 0)

F32MulSum(s, hh, mid, ll, E) ==
    F32MulHiLo(s, hh + mid \div 4096, (mid % 4096) * 4096 + ll, E)

\* Product of two 24-bit mantissas from their 12-bit halves.
F32MulLimbs(s, a1, a0, b1, b0, E) ==
    F32MulSum(s, a1 * b1, a1 * b0 + a0 * b1, a0 * b0, E)

F32Mul(x, y) ==
    IF x.m = 0 \/ y.m = 0 THEN F32Zero
    ELSE F32MulLimbs((x.s + y.s) % 2, x.m \div 4096, x.m % 4096,
                     y.m \div 4096, y.m % 4096, x.e + y.e + 22)

\* Long division: 25 quotient bits in steps of 7, 7, 7 and 4, then the
\* remainder as the sticky bit.
F32Div4(s, q, n, d, E) == F32Round(s, q * 16 + n \div d, E, n % d # 0)

F32Div3(s, q, n, d, E) == F32Div4(s, q * 128 + n \div d, (n % d) * 16, d, E)

F32Div2(s, q, n, d, E) == F32Div3(s, q * 128 + n \div d, (n % d) * 128, d, E)

F32Div1(s, n, d, E) == F32Div2(s, n \div d, (n % d) * 128, d, E)

F32Div(x, y) ==
    IF x.m = 0 THEN F32Zero
    ELSE F32Div1((x.s + y.s) % 2, x.m * 128, y.m, x.e - y.e - 25)

F32MagLt(x, y) ==
    IF y.m = 0 THEN FALSE
    ELSE IF x.m = 0 THEN TRUE
    ELSE x.e < y.e \/ (x.e = y.e /\ x.m < y.m)

\* X +/- (Ysh plus a fraction when sticky), X and Ysh carrying 3 guard bits.
F32Combine(s, X, Ysh, sticky, E, subtract) ==
    IF subtract /\ ~sticky /\ X = Ysh THEN F32Zero
    ELSE F32Round(s,
                  IF subtract THEN X - Ysh - (IF sticky THEN 1 ELSE 0)
                              ELSE X + Ysh,
                  E, sticky)

\* Aligns the smaller operand Y to the larger one, d = difference of exponents.
F32Aligned(s, X, Y, d, E, subtract) ==
    IF d >= 27 THEN F32Combine(s, X, 0, TRUE, E, subtract)
    ELSE F32Combine(s, X, Y \div 2^d, Y % 2^d # 0, E, subtract)

\* big + small or big - small for |big| >= |small| > 0, by sign.
F32Ordered(big, small) ==
    F32Aligned(big.s, big.m * 8, small.m * 8, big.e - small.e, big.e - 3,
               big.s # small.s)

F32Add(x, y) ==
    IF y.m = 0 THEN x
    ELSE IF x.m = 0 THEN y
    ELSE F32Ordered(IF F32MagLt(x, y) THEN y ELSE x,
                    IF F32MagLt(x, y) THEN x ELSE y)

F32Sub(x, y) == F32Add(x, F32Neg(y))

F32Lt(x, y) ==
    IF x.s = 1 /\ y.s = 0 THEN x.m # 0 \/ y.m # 0
    ELSE IF x.s = 0 /\ y.s = 1 THEN FALSE
    ELSE IF x.s = 0 THEN F32MagLt(x, y) ELSE F32MagLt(y, x)

\* `x as usize` for a finite x: truncation toward zero, negatives give 0.
F32ToUsize(x) ==
    IF x.m = 0 \/ x.s = 1 \/ x.e <= -24 THEN 0
    ELSE IF x.e >= 0 THEN x.m * 2^(x.e) ELSE x.m \div 2^(-(x.e))

\* A decimal literal p/q (both exactly representable) is the f32 nearest to it.
F32Lit(p, q) == F32Div(F32FromInt(p), F32FromInt(q))

(***************************************************************************)
(* Constants of main.rs.                                                   *)
(***************************************************************************)
PI == [s |-> 0, m |-> 13176795, e |-> -22]

DEGREES_IN_RADIANS == F32Div(PI, F32FromInt(180))

PEN_SIZE == F32FromInt(1)

WHITE == "0xffffffff"

GREEN == "0xff00ff00"

BLUE == "0xff0000ff"

RED == "0xffff0000"

YELLOW == "0xffffff00"

CYAN == "0xff00ffff"

MAGENTA == "0xffff00ff"

BLACK == "0xff000000"

(***************************************************************************)
(* Points, paints, shaders.                                                *)
(***************************************************************************)
Pt(x, y) == [x |-> x, y |-> y]

\* x = cx + r cos(radians), y = cy - r sin(radians), kept unevaluated.
point_in_circle(center, radius, radians) ==
    [center |-> center, radius |-> radius, radians |-> radians]

\* A length: f pixels, or f times the triangle's `side`.
Px(f) == [f |-> f, unit |-> "px"]

NoMatrix == [set |-> FALSE, sy_num |-> Px(F32Zero), sy_den |-> Px(F32Zero),
             translate |-> Pt(F32Zero, F32Zero)]

NoShader == [kind |-> "none", center |-> Pt(F32Zero, F32Zero),
             radius |-> Px(F32Zero), colors |-> <<>>, stops |-> <<>>,
             tile |-> "none", matrix |-> NoMatrix]

gradient_shader_radial(center, radius, colors, stops, matrix) ==
    [kind |-> "radial", center |-> center, radius |-> radius,
     colors |-> colors, stops |-> stops, tile |-> "Clamp", matrix |-> matrix]

Paint_default ==
    [anti_alias |-> FALSE, style |-> "Fill", stroke_width |-> F32Zero,
     stroke_join |-> "Miter", color |-> BLACK, shader |-> NoShader]

\* paint.set_shader(radial((0,0), radii.0, colors, None, Clamp, None,
\* scale(1, radii.1 / radii.0) then translate(center))): touches the shader only.
gradient(paint, center, radii, colors) ==
    [paint EXCEPT !.shader =
        gradient_shader_radial(
            Pt(F32Zero, F32Zero), radii[1], colors, <<>>,
            [set |-> TRUE, sy_num |-> radii[2], sy_den |-> radii[1],
             translate |-> center])]

(***************************************************************************)
(* The canvas: pixel dimensions, the current transform (the list of        *)
(* transforms concatenated so far), the save stack, and, since the last    *)
(* clear, the draw commands issued and the generator calls the canvas has  *)
(* been handed to, in order, each with its arguments.                      *)
(***************************************************************************)
NoCircle == [center |-> Pt(F32Zero, F32Zero), radius |-> F32Zero]

new_canvas(width, height) ==
    [width |-> width, height |-> height, ctm |-> <<>>, stack |-> <<>>,
     ops |-> <<>>, calls |-> <<>>]

\* Entry of triangle or chain_ring on cv with the given arguments.
canvas_enter(cv, fn, center, radius, degrees, vertex, color, wankel, teeth_count) ==
    [cv EXCEPT !.calls = Append(@, [fn |-> fn, center |-> center,
                                    radius |-> radius, degrees |-> degrees,
                                    vertex |-> vertex, color |-> color,
                                    wankel |-> wankel,
                                    teeth_count |-> teeth_count])]

canvas_save(canvas) ==
    With(canvas, LAMBDA cv : [cv EXCEPT !.stack = Append(@, cv.ctm)])

\* restore() with nothing saved does nothing.
canvas_restore(canvas) ==
    With(canvas, LAMBDA cv :
        IF cv.stack = <<>> THEN cv
        ELSE [cv EXCEPT !.ctm = cv.stack[Len(cv.stack)],
                        !.stack = SubSeq(@, 1, Len(@) - 1)])

canvas_translate(cv, x, y) ==
    [cv EXCEPT !.ctm = Append(@, [t |-> "translate", x |-> x, y |-> y,
                                  degrees |-> F32Zero])]

canvas_rotate(cv, degrees) ==
    [cv EXCEPT !.ctm = Append(@, [t |-> "rotate", x |-> 0, y |-> 0,
                                  degrees |-> degrees])]

canvas_draw_path(canvas, path, paint) ==
    With(canvas, LAMBDA cv :
        [cv EXCEPT !.ops = Append(@, [op |-> "draw_path", path |-> path,
                                      paint |-> paint, circle |-> NoCircle,
                                      ctm |-> cv.ctm, depth |-> Len(cv.stack)])])

canvas_draw_circle(canvas, center, radius, paint) ==
    With(canvas, LAMBDA cv :
        [cv EXCEPT !.ops = Append(@, [op |-> "draw_circle", path |-> <<>>,
                                      paint |-> paint,
                                      circle |-> [center |-> center,
                                                  radius |-> radius],
                                      ctm |-> cv.ctm, depth |-> Len(cv.stack)])])

\* clear(color) replaces the whole surface content, whatever the transform;
\* the record of calls starts afresh with it.
canvas_clear(canvas, color) ==
    With(canvas, LAMBDA cv :
        [cv EXCEPT !.calls = <<>>,
                   !.ops = <<[op |-> "clear", path |-> <<>>,
                              paint |-> [Paint_default EXCEPT !.color = color],
                              circle |-> NoCircle,
                              ctm |-> <<>>, depth |-> Len(cv.stack)]>>])

\* PEN_SIZE.max(canvas.image_info().dimensions().width as f32 / 360.0)
stroke_width(width) ==
    With(F32Div(F32FromInt(width), F32FromInt(360)), LAMBDA w :
        IF F32Lt(PEN_SIZE, w) THEN w ELSE PEN_SIZE)

(***************************************************************************)
(* Paths: a sequence of segments [verb, pts].                              *)
(***************************************************************************)
Seg(verb, pts) == [verb |-> verb, pts |-> pts]

(***************************************************************************)
(* triangle (main.rs 501-578).  vertex is Option<i32>:                     *)
(* [some |-> FALSE, index |-> 0] is None.  The result is the canvas and    *)
(* whether the call panicked.                                              *)
(***************************************************************************)
None == [some |-> FALSE, index |-> 0]

Some(index) == [some |-> TRUE, index |-> index]

\* f times `side`, where side = r / cos((PI - delta) / 2) * 2 is not evaluated.
Side(f) == [f |-> f, unit |-> "side"]

\* triangle_radii with the last arm a default instead of panic!.
triangle_radii_default(index, wankel) ==
    IF index = 1
    THEN IF wankel THEN <<Side(F32Lit(404, 1000)), Side(F32Lit(50, 100))>>
                   ELSE <<Side(F32Lit(420, 1000)), Side(F32Lit(50, 100))>>
    ELSE IF wankel THEN <<Side(F32Lit(36, 100)), Side(F32Lit(404, 1000))>>
                   ELSE <<Side(F32Lit(30, 100)), Side(F32Lit(60, 100))>>

\* The table of gradient radii; <<>> stands for the panicking arm.
triangle_radii(index, wankel) ==
    IF index = 0 \/ index = 2
    THEN IF wankel THEN <<Side(F32Lit(36, 100)), Side(F32Lit(404, 1000))>>
                   ELSE <<Side(F32Lit(30, 100)), Side(F32Lit(60, 100))>>
    ELSE IF index = 1
    THEN IF wankel THEN <<Side(F32Lit(404, 1000)), Side(F32Lit(50, 100))>>
                   ELSE <<Side(F32Lit(420, 1000)), Side(F32Lit(50, 100))>>
    ELSE <<>>

RECURSIVE triangle_path_five(_, _, _, _, _, _, _, _)
\* triangle_path with the loop running for i in 0..5.
triangle_path_five(path, i, alpha, c, r, b, delta, wankel) ==
    IF i >= 5 THEN path
    ELSE triangle_path_five(
             Append(path,
                    IF i = 0 THEN Seg("move", <<point_in_circle(c, r, alpha)>>)
                    ELSE IF wankel
                    THEN Seg("cubic",
                             <<point_in_circle(c, b,
                                   F32Sub(alpha, F32Div(F32Mul(F32FromInt(2), delta),
                                                        F32FromInt(3)))),
                               point_in_circle(c, b,
                                   F32Sub(alpha, F32Div(delta, F32FromInt(3)))),
                               point_in_circle(c, r, alpha)>>)
                    ELSE Seg("line", <<point_in_circle(c, r, alpha)>>)),
             i + 1, F32Add(alpha, delta), c, r, b, delta, wankel)

RECURSIVE triangle_path(_, _, _, _, _, _, _, _)
\* for i in 0..4 { ... alpha += delta }
triangle_path(path, i, alpha, c, r, b, delta, wankel) ==
    IF i >= 4 THEN path
    ELSE LET v   == point_in_circle(c, r, alpha)
             seg == IF i = 0 THEN Seg("move", <<v>>)
                    ELSE IF wankel
                    THEN Seg("cubic",
                             <<point_in_circle(c, b,
                                   F32Sub(alpha, F32Div(F32Mul(F32FromInt(2), delta),
                                                        F32FromInt(3)))),
                               point_in_circle(c, b,
                                   F32Sub(alpha, F32Div(delta, F32FromInt(3)))),
                               v>>)
                    ELSE Seg("line", <<v>>)
         IN triangle_path(Append(path, seg), i + 1, F32Add(alpha, delta),
                          c, r, b, delta, wankel)

\* let delta = 120.0 * DEGREES_IN_RADIANS;
triangle_delta == F32Mul(F32FromInt(120), DEGREES_IN_RADIANS)

\* The paint at the draw: the match on vertex (519-560), for an index that
\* has an arm.  c and r are center and radius as f32.
triangle_paint(width, c, r, degrees, vertex, color, wankel) ==
    IF vertex.some
    THEN gradient(Paint_default,
                  point_in_circle(c, r,
                      F32Mul(F32Add(degrees, F32FromInt(120 * vertex.index)),
                             DEGREES_IN_RADIANS)),
                  triangle_radii(vertex.index, wankel),
                  <<color, "0x000000ff">>)
    ELSE [Paint_default EXCEPT
            !.anti_alias = TRUE,
            !.stroke_width = stroke_width(width),
            !.style = "Stroke",
            !.stroke_join = "Bevel",
            !.shader = gradient_shader_radial(
                           Pt(c.x, F32Sub(c.y, F32Mul(F32Lit(5, 10), r))),
                           Px(F32Mul(F32Lit(5, 10), r)),
                           <<WHITE, color>>, <<>>, NoMatrix)]

\* The body of triangle once c, r and alpha are computed: the match panics
\* for an index without an arm, before any segment is built; otherwise the
\* loop, close and draw_path (561-577).
triangle_draw(canvas, c, r, alpha, degrees, vertex, color, wankel) ==
    IF vertex.some /\ triangle_radii(vertex.index, wankel) = <<>>
    THEN [canvas |-> canvas, panic |-> TRUE]
    ELSE [canvas |->
            canvas_draw_path(
                canvas,
                Append(triangle_path(<<>>, 0, alpha, c, r,
                                     F32Mul(r, F32Lit(9, 10)), triangle_delta,
                                     wankel),
                       Seg("close", <<>>)),
                triangle_paint(canvas.width, c, r, degrees, vertex, color,
                               wankel)),
          panic |-> FALSE]

triangle(canvas_in, center, radius, degrees, vertex, color, wankel) ==
    With(canvas_enter(canvas_in, "triangle", center, radius, degrees, vertex,
                      color, wankel, 0),
         LAMBDA cv :
            triangle_draw(cv, Pt(F32FromInt(center[1]), F32FromInt(center[2])),
                          F32FromInt(radius),
                          F32Mul(degrees, DEGREES_IN_RADIANS),
                          degrees, vertex, color, wankel))

(***************************************************************************)
(* chain_ring (main.rs 367-498).  The path keeps the verbs of its          *)
(* segments; their coordinates are not represented.                        *)
(***************************************************************************)
\* One pass of "for i in 0..teeth_count" (395-415): move_to (i = 0) or
\* line_to the vertex, one cubic_to, one line_to.
tooth(i) ==
    <<Seg(IF i = 0 THEN "move" ELSE "line", <<>>),
      Seg("cubic", <<>>), Seg("line", <<>>)>>

\* teeth_contour with the loop one pass short: for i in 1..teeth_count.
teeth_contour_short(teeth_count) ==
    [k \in 1..(3 * (teeth_count - 1)) |->
        tooth((k - 1) \div 3)[((k - 1) % 3) + 1]]

\* The segments of the whole loop: pass (k-1) \div 3 gives segments 3i+1..3i+3.
teeth_contour(teeth_count) ==
    [k \in 1..(3 * teeth_count) |-> tooth((k - 1) \div 3)[((k - 1) % 3) + 1]]

\* One pass of "for i in 0..5" (417-445): move_to (i = 0) or line_to, two
\* cubic_to.
scallop(i) ==
    <<Seg(IF i = 0 THEN "move" ELSE "line", <<>>),
      Seg("cubic", <<>>), Seg("cubic", <<>>)>>

scallop_contour ==
    [k \in 1..15 |-> scallop((k - 1) \div 3)[((k - 1) % 3) + 1]]

\* "for j in 0..5" (452-463): move_to for j = 0, a cubic_to otherwise; then
\* path.close() (464).
bolt_rosette ==
    [j \in 1..5 |-> Seg(IF j = 1 THEN "move" ELSE "cubic", <<>>)]
        \o <<Seg("close", <<>>)>>

\* "for _i in 0..5" (447-467): five rosettes.
bolt_contours ==
    [k \in 1..30 |-> bolt_rosette[((k - 1) % 6) + 1]]

chain_ring_path(teeth_count) ==
    teeth_contour(teeth_count) \o <<Seg("close", <<>>)>>
        \o scallop_contour \o <<Seg("close", <<>>)>>
        \o bolt_contours

\* Lines 469-479: style Fill and the steel-to-rust radial gradient.
fill_paint(width, ridge_radius) ==
    [Paint_default EXCEPT
       !.anti_alias = TRUE,
       !.stroke_width = stroke_width(width),
       !.style = "Fill",
       !.shader = gradient_shader_radial(
                      Pt(F32Zero, F32Mul(F32Lit(4, 100), ridge_radius)),
                      Px(ridge_radius),
                      <<"0xff555555", "0xff7b492d">>,
                      <<F32Lit(8, 10), F32FromInt(1)>>, NoMatrix)]

\* Lines 481-483 on the same paint: no shader, style Stroke, colour.
stroke_paint(paint) ==
    [paint EXCEPT !.shader = NoShader, !.style = "Stroke",
                  !.color = "0xff592e1f"]

\* ridge_paint with the style set back to Fill before the circle.
ridge_paint_filled(paint, ridge_radius) ==
    gradient([paint EXCEPT !.style = "Fill"],
             Pt(F32Zero, F32Neg(ridge_radius)),
             <<Px(F32Mul(F32FromInt(2), ridge_radius)),
               Px(F32Mul(F32FromInt(2), ridge_radius))>>,
             <<"0xff592e1f", "0xff885543">>)

\* Lines 489-494 on the same paint: gradient() replaces the shader only.
ridge_paint(paint, ridge_radius) ==
    gradient(paint, Pt(F32Zero, F32Neg(ridge_radius)),
             <<Px(F32Mul(F32FromInt(2), ridge_radius)),
               Px(F32Mul(F32FromInt(2), ridge_radius))>>,
             <<"0xff592e1f", "0xff885543">>)

\* chain_ring_draws with both restores after the circle.
chain_ring_draws_late_restore(cv, path, paint, ridge_radius) ==
    canvas_restore(
        canvas_restore(
            canvas_draw_circle(
                canvas_draw_path(canvas_draw_path(cv, path, paint),
                                 path, stroke_paint(paint)),
                Pt(F32Zero, F32Zero), ridge_radius,
                ridge_paint(stroke_paint(paint), ridge_radius))))

\* Lines 480-497, once the path is built and the first paint set up.
chain_ring_draws(cv, path, paint, ridge_radius) ==
    canvas_restore(
        canvas_draw_circle(
            canvas_restore(
                canvas_draw_path(canvas_draw_path(cv, path, paint),
                                 path, stroke_paint(paint))),
            Pt(F32Zero, F32Zero), ridge_radius,
            ridge_paint(stroke_paint(paint), ridge_radius)))

\* ridge_radius = outer_radius * 0.85, outer_radius = radius as f32.
chain_ring(canvas_in, center, radius, rotation, teeth_count) ==
    With(canvas_enter(canvas_in, "chain_ring", center, radius, rotation, None,
                      "none", FALSE, teeth_count),
         LAMBDA cv :
            chain_ring_draws(
                canvas_rotate(
                    canvas_save(
                        canvas_translate(canvas_save(cv), center[1], center[2])),
                    rotation),
                chain_ring_path(teeth_count),
                fill_paint(cv.width,
                           F32Mul(F32FromInt(radius), F32Lit(85, 100))),
                F32Mul(F32FromInt(radius), F32Lit(85, 100))))

(***************************************************************************)
(* render_frame (main.rs 268-365).                                         *)
(***************************************************************************)
\* let step = 12.0 * bpm as f32 / 60.0 / fps as f32;
step(fps, bpm) ==
    F32Div(F32Div(F32Mul(F32FromInt(12), F32FromInt(bpm)), F32FromInt(60)),
           F32FromInt(fps))

\* frame_count with the quotient rounded to nearest: (360.0 / step).round().
frame_count_rounded(fps, bpm) ==
    F32ToUsize(F32Add(F32Div(F32FromInt(360), step(fps, bpm)), F32Lit(5, 10)))

\* let frame_count = (360.0 / step) as usize;
frame_count(fps, bpm) == F32ToUsize(F32Div(F32FromInt(360), step(fps, bpm)))

\* rotation with the frame index reduced modulo the cycle first.
rotation_reduced(frame, fps, bpm) ==
    F32Mul(F32FromInt(frame % frame_count(fps, bpm)), step(fps, bpm))

\* let rotation = frame as f32 * step;
rotation(frame, fps, bpm) == F32Mul(F32FromInt(frame), step(fps, bpm))

\* usize_sub as a.saturating_sub(b): never panics, never wraps.
usize_sub_saturating(a, b, overflow_checks) ==
    [status |-> "returned", value |-> IF a >= b THEN a - b ELSE 0,
     wrapped |-> FALSE]

\* a - b on usize.  With overflow checks (debug profile) an underflow panics;
\* without them the result wraps: value < 0 then stands for 2^64 + value.
usize_sub(a, b, overflow_checks) ==
    IF a >= b
    THEN [status |-> "returned", value |-> a - b, wrapped |-> FALSE]
    ELSE IF overflow_checks
    THEN [status |-> "panicked", value |-> 0, wrapped |-> FALSE]
    ELSE [status |-> "returned", value |-> a - b, wrapped |-> TRUE]

\* The next statement of render_frame, a call of triangle: it runs unless an
\* earlier call panicked.
then_triangle(prev, center, radius, degrees, vertex, color, wankel) ==
    With(prev, LAMBDA p :
        IF p.panic THEN p
        ELSE triangle(p.canvas, center, radius, degrees, vertex, color, wankel))

\* min(dim.width, dim.height)
min(a, b) == IF a < b THEN a ELSE b

\* Lines 287-362: chain_ring, then the eight triangle calls.
render_frame_draws(cv, center, chain_ring_radius, triangle_radius, rot, triangle_rotation) ==
    then_triangle(then_triangle(then_triangle(then_triangle(
    then_triangle(then_triangle(then_triangle(then_triangle(
        [canvas |-> chain_ring(cv, center, chain_ring_radius, rot, 32),
         panic |-> FALSE],
        center, triangle_radius, triangle_rotation, Some(0), GREEN, TRUE),
        center, triangle_radius, triangle_rotation, Some(1), BLUE, TRUE),
        center, triangle_radius, triangle_rotation, Some(2), RED, TRUE),
        center, triangle_radius, triangle_rotation, Some(0), YELLOW, FALSE),
        center, triangle_radius, triangle_rotation, Some(1), CYAN, FALSE),
        center, triangle_radius, triangle_rotation, Some(2), MAGENTA, FALSE),
        center, triangle_radius, triangle_rotation, None, "0x77222222", TRUE),
        center, triangle_radius, triangle_rotation, None, "0x77222222", FALSE)

\* Line 364: frame_count - (frame + 1), evaluated after the draws.
render_frame_return(t, r) ==
    IF t.panic
    THEN [canvas |-> t.canvas, status |-> "panicked", value |-> 0,
          wrapped |-> FALSE]
    ELSE [canvas |-> t.canvas, status |-> r.status, value |-> r.value,
          wrapped |-> r.wrapped]

\* render_frame_sized with a triangle radius of 50 instead of 53 percent.
render_frame_sized_radius50(cv, size, rot) ==
    render_frame_draws(cv, <<size \div 2, size \div 2>>,
                       ((size \div 2) * 100) \div 100,
                       ((size \div 2) * 50) \div 100,
                       rot, F32Add(F32FromInt(60), rot))

\* Lines 277-289 with size the smaller canvas dimension and rot the rotation.
render_frame_sized(cv, size, rot) ==
    render_frame_draws(cv, <<size \div 2, size \div 2>>,
                       ((size \div 2) * 100) \div 100,
                       ((size \div 2) * 53) \div 100,
                       rot, F32Add(F32FromInt(60), rot))

render_frame(frame, fps, bpm, canvas_in, overflow_checks) ==
    With(canvas_in, LAMBDA cv :
        With(render_frame_sized(cv, min(cv.width, cv.height),
                                rotation(frame, fps, bpm)),
             LAMBDA t :
                With(usize_sub(frame_count(fps, bpm), frame + 1,
                               overflow_checks),
                     LAMBDA r : render_frame_return(t, r))))

(***************************************************************************)
(* State.                                                                  *)
(*   call, pc, canvas, ret: one call of a generator on a canvas, its       *)
(*     position and its result;                                            *)
(*   frame .. steps: the host event loop of main (main.rs 166-253).        *)
(***************************************************************************)
VARIABLES call, pc, canvas, ret,
          frame, now, previous_frame_start, modifiers, exiting, event,
          steps

vars == <<call, pc, canvas, ret,
          frame, now, previous_frame_start, modifiers, exiting, event,
          steps>>

call_vars == <<call, pc, ret>>

host_vars == <<frame, now, previous_frame_start, modifiers, exiting, event,
               steps>>

(***************************************************************************)
(* Bounds and input sets.                                                  *)
(***************************************************************************)
MaxFrame == 6

MaxIndex == 3

MaxNow == 100

MaxHostFrame == 11

\* A second window of frame counter values, around the end of a turn.
LateFrame == 356

MaxLateFrame == 362

Frames == (0..MaxFrame) \cup {59, 60, 599, 600}

FpsSet == {1, 3, 12, 20}

BpmSet == {11, 60, 216, 600}

Sizes == {<<800, 800>>, <<400, 300>>}

TeethCounts == {1, 5, 32}

Degrees == {F32FromInt(0), F32FromInt(60), F32Lit(4215, 10)}

Vertices == {None} \cup {Some(i) : i \in -1..MaxIndex}

TriangleColors == {GREEN, "0x77222222"}

\* Canvases a generator can be handed: a fresh one, or one that already holds
\* a drawing, a saved state and a transform.
EntryCanvases(size) ==
    {new_canvas(size[1], size[2]),
     canvas_translate(
         canvas_save(
             triangle(canvas_clear(new_canvas(size[1], size[2]), WHITE),
                      <<10, 10>>, 5, F32Zero, None, RED, FALSE).canvas),
         7, 9)}

RenderCalls ==
    {[fn |-> "render_frame", frame |-> f, fps |-> fps, bpm |-> bpm, canvas |-> cv] :
        f \in Frames, fps \in FpsSet, bpm \in BpmSet,
        cv \in UNION {EntryCanvases(sz) : sz \in Sizes}}

TriangleCalls ==
    {[fn |-> "triangle", center |-> <<sz[1] \div 2, sz[2] \div 2>>,
      radius |-> sz[2] \div 4, degrees |-> d, vertex |-> v, color |-> col,
      wankel |-> w, canvas |-> cv] :
        sz \in Sizes, d \in Degrees, v \in Vertices, col \in TriangleColors,
        w \in BOOLEAN, cv \in UNION {EntryCanvases(s2) : s2 \in Sizes}}

ChainRingCalls ==
    {[fn |-> "chain_ring", center |-> <<sz[1] \div 2, sz[2] \div 2>>,
      radius |-> sz[2] \div 2, rotation |-> d, teeth_count |-> n,
      canvas |-> cv] :
        sz \in Sizes, d \in Degrees, n \in TeethCounts,
        cv \in UNION {EntryCanvases(s2) : s2 \in Sizes}}

NoCall == [fn |-> "none"]

NoRet == [status |-> "none", value |-> 0, wrapped |-> FALSE]

HostInit ==
    /\ frame = 0
    /\ now = 0
    /\ previous_frame_start = 0
    /\ modifiers = [super_key |-> FALSE]
    /\ exiting = FALSE
    /\ event = "none"
    /\ steps = <<>>

(***************************************************************************)
(* Spec: a generator is called once, on inputs drawn from the sets above.  *)
(***************************************************************************)
Init ==
    /\ call \in RenderCalls \cup TriangleCalls \cup ChainRingCalls
    /\ pc = "entry"
    /\ canvas = call.canvas
    /\ ret = NoRet
    /\ HostInit

CallRenderFrame ==
    /\ pc = "entry"
    /\ call.fn = "render_frame"
    /\ \E overflow_checks \in BOOLEAN :
         \E r \in {render_frame(call.frame, call.fps, call.bpm, canvas,
                                overflow_checks)} :
            /\ canvas' = r.canvas
            /\ ret' = [status |-> r.status, value |-> r.value,
                       wrapped |-> r.wrapped]
            /\ pc' = r.status
    /\ UNCHANGED <<call, host_vars>>

CallTriangle ==
    /\ pc = "entry"
    /\ call.fn = "triangle"
    /\ \E r \in {triangle(canvas, call.center, call.radius, call.degrees,
                           call.vertex, call.color, call.wankel)} :
          /\ canvas' = r.canvas
          /\ pc' = IF r.panic THEN "panicked" ELSE "returned"
          /\ ret' = [NoRet EXCEPT !.status = IF r.panic THEN "panicked"
                                                        ELSE "returned"]
    /\ UNCHANGED <<call, host_vars>>

CallChainRing ==
    /\ pc = "entry"
    /\ call.fn = "chain_ring"
    /\ canvas' = chain_ring(canvas, call.center, call.radius, call.rotation,
                            call.teeth_count)
    /\ pc' = "returned"
    /\ ret' = [NoRet EXCEPT !.status = "returned"]
    /\ UNCHANGED <<call, host_vars>>

Next == CallRenderFrame \/ CallTriangle \/ CallChainRing

Spec == Init /\ [][Next]_vars

(***************************************************************************)
(* HostSpec: the event loop of main (main.rs 166-253).  Each action is one *)
(* invocation of the closure handed to el.run, for one event.  Time is in  *)
(* milliseconds; `now` is the clock read at the top of the closure.        *)
(***************************************************************************)
\* Duration::from_secs_f32(1.0 / 20.0)
FRAME_DURATION == 50

\* Clock advance between two invocations of the closure.
Ticks == {0, 50}

Keys == {"q", "a"}

saturating_sub(a, b) == IF a >= b THEN a - b ELSE 0

HostStart ==
    /\ call = NoCall
    /\ pc = "host"
    /\ canvas = new_canvas(800, 800)
    /\ ret = NoRet
    /\ HostInit

\* What every host action requires: the loop is running, and the bounds.
HostRunning(dt) ==
    /\ pc = "host"
    /\ ~exiting
    /\ now + dt <= MaxNow
    /\ \/ frame < MaxHostFrame
       \/ LateFrame <= frame /\ frame < MaxLateFrame

\* timer_elapsed with >= for >.
timer_elapsed_inclusive(frame_start, previous) ==
    frame_start - previous >= FRAME_DURATION

\* frame_start - previous_frame_start > frame_duration
timer_elapsed(frame_start, previous) ==
    frame_start - previous > FRAME_DURATION

\* frame_argument without the reduction: render_frame(frame, ..).
frame_argument_unreduced(counter) == counter

\* The frame argument of render_frame: frame % 360.
frame_argument(counter) == counter % 360

\* The closure after the match on the event (234-252): frame1 is the counter
\* and surface the canvas the match left, draw_frame0 the flag it set.  call
\* and ret hold the arguments and the result of the iteration's call of
\* render_frame, if it made one.
HostFrame(frame_start, frame1, draw_frame0, surface) ==
    LET timer      == timer_elapsed(frame_start, previous_frame_start)
        draw_frame == draw_frame0 \/ timer
    IN /\ now' = frame_start
       /\ previous_frame_start' = IF timer THEN frame_start
                                           ELSE previous_frame_start
       /\ IF draw_frame
          THEN \E overflow_checks \in BOOLEAN :
                 \E r \in {render_frame(frame_argument(frame1 + 1), 12, 60,
                                        canvas_clear(surface, WHITE),
                                        overflow_checks)} :
                    /\ frame' = frame1 + 1
                    /\ call' = [fn |-> "render_frame",
                                frame |-> frame_argument(frame1 + 1),
                                fps |-> 12, bpm |-> 60]
                    /\ ret' = [status |-> r.status, value |-> r.value,
                               wrapped |-> r.wrapped]
                    /\ canvas' = r.canvas
                    /\ pc' = IF r.status = "panicked" THEN "panicked" ELSE pc
                    /\ steps' = <<"frame += 1", "clear", "render_frame">>
                                \o IF r.status = "panicked" THEN <<>>
                                   ELSE <<"flush_and_submit", "swap_buffers">>
          ELSE /\ frame' = frame1
               /\ call' = NoCall
               /\ ret' = NoRet
               /\ canvas' = surface
               /\ pc' = pc
               /\ steps' = <<>>

\* WindowEvent::CloseRequested: exit() and return, nothing else runs.
CloseRequested ==
    \E dt \in Ticks :
        /\ HostRunning(dt)
        /\ event' = "CloseRequested"
        /\ exiting' = TRUE
        /\ now' = now + dt
        /\ steps' = <<>>
        /\ UNCHANGED <<call, pc, canvas, ret, frame, previous_frame_start,
                       modifiers>>

\* WindowEvent::Resized: a new surface of the window's size (create_surface,
\* 136-159), which is the canvas of the later draws.
Resized ==
    \E dt \in Ticks, physical_size \in Sizes :
        /\ HostRunning(dt)
        /\ event' = "Resized"
        /\ HostFrame(now + dt, frame, FALSE,
                     new_canvas(physical_size[1], physical_size[2]))
        /\ UNCHANGED <<modifiers, exiting>>

ModifiersChanged ==
    \E dt \in Ticks, new_modifiers \in [super_key : BOOLEAN] :
        /\ HostRunning(dt)
        /\ event' = "ModifiersChanged"
        /\ modifiers' = new_modifiers
        /\ HostFrame(now + dt, frame, FALSE, canvas)
        /\ UNCHANGED exiting

\* WindowEvent::KeyboardInput: super+q exits (without returning); every key
\* takes 10 off the frame counter and requests a redraw: the window system
\* answers request_redraw() with a later RedrawRequested event, which may
\* arrive at any time anyway.
KeyboardInput ==
    \E dt \in Ticks, logical_key \in Keys :
        /\ HostRunning(dt)
        /\ event' = "KeyboardInput"
        /\ exiting' = (modifiers.super_key /\ logical_key = "q")
        /\ HostFrame(now + dt, saturating_sub(frame, 10), FALSE, canvas)
        /\ UNCHANGED modifiers

RedrawRequested ==
    \E dt \in Ticks :
        /\ HostRunning(dt)
        /\ event' = "RedrawRequested"
        /\ HostFrame(now + dt, frame, TRUE, canvas)
        /\ UNCHANGED <<modifiers, exiting>>

\* Any other event: `_ => ()`, or an event that is not a WindowEvent.
OtherEvent ==
    \E dt \in Ticks :
        /\ HostRunning(dt)
        /\ event' = "Other"
        /\ HostFrame(now + dt, frame, FALSE, canvas)
        /\ UNCHANGED <<modifiers, exiting>>

HostNext ==
    \/ CloseRequested
    \/ Resized
    \/ ModifiersChanged
    \/ KeyboardInput
    \/ RedrawRequested
    \/ OtherEvent

HostSpec == HostStart /\ [][HostNext]_vars

(***************************************************************************)
(* HostCycleSpec: the same loop, started either as HostSpec or where        *)
(* LateFrame redraw requests delivered at time 0 have brought it: the      *)
(* counter at LateFrame and the canvas holding that frame.                 *)
(***************************************************************************)
HostLate ==
    /\ call = [fn |-> "render_frame", frame |-> frame_argument(LateFrame),
               fps |-> 12, bpm |-> 60]
    /\ pc = "host"
    /\ canvas = render_frame(frame_argument(LateFrame), 12, 60,
                             canvas_clear(new_canvas(800, 800), WHITE),
                             TRUE).canvas
    /\ ret = [status |-> "returned",
              value |-> 360 - (frame_argument(LateFrame) + 1),
              wrapped |-> FALSE]
    /\ frame = LateFrame
    /\ now = 0
    /\ previous_frame_start = 0
    /\ modifiers = [super_key |-> FALSE]
    /\ exiting = FALSE
    /\ event = "RedrawRequested"
    /\ steps = <<"frame += 1", "clear", "render_frame", "flush_and_submit",
                 "swap_buffers">>

HostCycleSpec == (HostStart \/ HostLate) /\ [][HostNext]_vars

(***************************************************************************)
(* What a call added to the canvas it was handed.                          *)
(***************************************************************************)
Finished == pc \in {"returned", "panicked"}

NewOps == SubSeq(canvas.ops, Len(call.canvas.ops) + 1, Len(canvas.ops))

NewCalls == SubSeq(canvas.calls, Len(call.canvas.calls) + 1, Len(canvas.calls))

\* The (vertex, color, wankel) arguments of the eight triangle calls.
TriangleOrder ==
    << <<Some(0), GREEN, TRUE>>, <<Some(1), BLUE, TRUE>>, <<Some(2), RED, TRUE>>,
       <<Some(0), YELLOW, FALSE>>, <<Some(1), CYAN, FALSE>>,
       <<Some(2), MAGENTA, FALSE>>,
       <<None, "0x77222222", TRUE>>, <<None, "0x77222222", FALSE>> >>

NineCalls(n) ==
    /\ Len(n) = 9
    /\ n[1].fn = "chain_ring"
    /\ n[1].teeth_count = 32
    /\ \A k \in 2..9 :
          /\ n[k].fn = "triangle"
          /\ <<n[k].vertex, n[k].color, n[k].wankel>> = TriangleOrder[k - 1]
          /\ n[k].center = n[2].center
          /\ n[k].radius = n[2].radius
          /\ n[k].degrees = n[2].degrees

IsExample800 ==
    /\ call.fn = "render_frame"
    /\ call.frame = 0 /\ call.fps = 20 /\ call.bpm = 60
    /\ call.canvas.width = 800 /\ call.canvas.height = 800

\* C1: whatever the frame, fps, bpm and canvas, a finished call of
\* render_frame has made exactly nine generator calls on the canvas:
\* chain_ring with 32 teeth, then the eight triangle calls in the fixed order
\* of vertex, colour and rounding, all with one center, radius and rotation;
\* for 800x800, fps 20, bpm 60, frame 0 the ring radius is 400, the triangle
\* radius 212, the ring rotation 0 and the triangle rotation 60 degrees.
C1_NineCallsInOrder ==
    (call.fn = "render_frame" /\ Finished) =>
        /\ NineCalls(NewCalls)
        /\ IsExample800 =>
              /\ NewCalls[1].radius = 400
              /\ NewCalls[2].radius = 212
              /\ NewCalls[1].degrees = F32Zero
              /\ NewCalls[2].degrees = F32FromInt(60)

C1_Witness ==
    /\ IsExample800
    /\ pc = "returned"
    /\ Len(NewCalls) = 9
    /\ NewCalls[9].wankel = FALSE

IsRenderFrame == call.fn = "render_frame" /\ Finished

IsTriangle == call.fn = "triangle" /\ Finished

\* C3: a vertex-mode call of triangle with an index outside {0, 1, 2} panics
\* and leaves the canvas without any new draw; with an index in {0, 1, 2},
\* or with no vertex, the call returns and has drawn exactly one path.
C3_InvalidIndexPanics ==
    IsTriangle =>
        IF call.vertex.some /\ call.vertex.index \notin {0, 1, 2}
        THEN /\ pc = "panicked"
             /\ canvas.ops = call.canvas.ops
        ELSE /\ pc = "returned"
             /\ Len(NewOps) = 1
             /\ NewOps[1].op = "draw_path"
             /\ SubSeq(canvas.ops, 1, Len(call.canvas.ops)) = call.canvas.ops

C3_Witness ==
    /\ call.fn = "triangle"
    /\ call.vertex = Some(3)
    /\ pc = "panicked"
    /\ canvas.ops = call.canvas.ops
    /\ Len(NewCalls) = 1

\* 0 <= d < 360, for an f32 d.
InTurn(d) == (d.m = 0 \/ d.s = 0) /\ F32Lt(d, F32FromInt(360))

\* C4 as claimed: the ring rotation is (f mod cycle_length) * step, hence in
\* [0, 360) and the same for f and f + cycle_length, and every triangle gets
\* 60 plus that.
C4_RotationReduced ==
    IsRenderFrame =>
        /\ NewCalls[1].degrees =
              F32Mul(F32FromInt(call.frame % frame_count(call.fps, call.bpm)),
                     step(call.fps, call.bpm))
        /\ InTurn(NewCalls[1].degrees)
        /\ \A k \in 2..9 :
              NewCalls[k].degrees = F32Add(F32FromInt(60), NewCalls[1].degrees)

\* C4, amended: the ring rotation is the f32 product f * step with f not
\* reduced, and every triangle gets 60 plus that.  It is in [0, 360) for
\* f < cycle_length; past the cycle it can be 360 or more (fps 1, bpm 600,
\* f = 3 gives 360; fps 12, bpm 60 gives f degrees for every f).
C4_RotationUnreduced ==
    IsRenderFrame =>
        /\ NewCalls[1].degrees =
              F32Mul(F32FromInt(call.frame), step(call.fps, call.bpm))
        /\ \A k \in 2..9 :
              NewCalls[k].degrees = F32Add(F32FromInt(60), NewCalls[1].degrees)
        /\ call.frame < frame_count(call.fps, call.bpm) =>
              InTurn(NewCalls[1].degrees)
        /\ (call.fps = 1 /\ call.bpm = 600 /\ call.frame = 3) =>
              NewCalls[1].degrees = F32FromInt(360)
        /\ (call.fps = 12 /\ call.bpm = 60) =>
              /\ NewCalls[1].degrees = F32FromInt(call.frame)
              /\ NewCalls[2].degrees = F32FromInt(60 + call.frame)

\* A call one cycle after frame 0 whose ring rotation is a full turn.
C4_Witness ==
    /\ IsRenderFrame
    /\ call.fps = 1 /\ call.bpm = 600 /\ call.frame = 3
    /\ frame_count(call.fps, call.bpm) = 3
    /\ NewCalls[1].degrees = F32FromInt(360)
    /\ NewCalls[9].degrees = F32FromInt(420)

\* The cycle length a returned call used: its value is cycle - (frame + 1).
CycleOf == ret.value + call.frame + 1

\* C5 as claimed: cycle_length is 1800 * fps / bpm rounded to nearest.
C5_CycleRounded ==
    (IsRenderFrame /\ pc = "returned") =>
        CycleOf = (2 * 1800 * call.fps + call.bpm) \div (2 * call.bpm)

\* C5, amended: cycle_length is the f32 quotient 360 / step truncated toward
\* zero, never rounded up: it is floor(1800 * fps / bpm), or one less when
\* the f32 quotient falls just below a whole number.  fps 1, bpm 11 gives
\* 163; fps 3, bpm 216 gives 24; fps 20, bpm 60 gives 600.
C5_CycleTruncated ==
    (IsRenderFrame /\ pc = "returned") =>
        /\ CycleOf \in {(1800 * call.fps) \div call.bpm,
                        (1800 * call.fps) \div call.bpm - 1}
        /\ (call.fps = 1 /\ call.bpm = 11) => CycleOf = 163
        /\ (call.fps = 3 /\ call.bpm = 216) => CycleOf = 24
        /\ (call.fps = 20 /\ call.bpm = 60) => CycleOf = 600
        /\ (call.fps = 12 /\ call.bpm = 60) => CycleOf = 360

C5_Witness ==
    /\ IsRenderFrame /\ pc = "returned"
    /\ call.fps = 1 /\ call.bpm = 11
    /\ CycleOf = 163
    /\ 2 * 1800 * call.fps > (2 * 163 + 1) * call.bpm

IsChainRing == call.fn = "chain_ring" /\ Finished

CountVerb(path, verb) ==
    Cardinality({k \in 1..Len(path) : path[k].verb = verb})

\* The contour segment k of path belongs to: the number of moves up to k.
ContourAt(path, k) ==
    Cardinality({j \in 1..k : path[j].verb = "move"})

CubicsOf(path, contour) ==
    {k \in 1..Len(path) : path[k].verb = "cubic" /\ ContourAt(path, k) = contour}

\* Every contour starts with a move and ends with a close, and nothing lies
\* outside a contour.
AllContoursClosed(path) ==
    /\ path # <<>>
    /\ path[1].verb = "move"
    /\ path[Len(path)].verb = "close"
    /\ \A k \in 1..(Len(path) - 1) :
          (path[k].verb = "close") <=> (path[k + 1].verb = "move")

\* C6: the path chain_ring builds for 32 teeth has exactly 7 contours, each
\* from a move to a close: the outer one with 32 cubics, each followed by a
\* line; the inner one with 10 cubics in 5 chained pairs; and 5 rosettes of
\* a move, 4 cubics and a close.  Both draws of the path are of that whole
\* path, so nothing is drawn before all 7 contours are closed.
C6_ChainRingPath ==
    (IsChainRing /\ call.teeth_count = 32) =>
        /\ Len(NewOps) = 3
        /\ NewOps[1].op = "draw_path" /\ NewOps[2].op = "draw_path"
        /\ NewOps[2].path = NewOps[1].path
        /\ AllContoursClosed(NewOps[1].path)
        /\ CountVerb(NewOps[1].path, "move") = 7
        /\ CountVerb(NewOps[1].path, "close") = 7
        /\ Cardinality(CubicsOf(NewOps[1].path, 1)) = 32
        /\ \A k \in CubicsOf(NewOps[1].path, 1) :
              NewOps[1].path[k + 1].verb = "line"
        /\ Cardinality(CubicsOf(NewOps[1].path, 2)) = 10
        /\ \A k \in CubicsOf(NewOps[1].path, 2) :
              (NewOps[1].path[k - 1].verb = "cubic")
                  # (NewOps[1].path[k + 1].verb = "cubic")
        /\ \A c \in 3..7 :
              /\ Cardinality(CubicsOf(NewOps[1].path, c)) = 4
              /\ Cardinality({k \in 1..Len(NewOps[1].path) :
                                 ContourAt(NewOps[1].path, k) = c}) = 6

C6_Witness ==
    /\ IsChainRing
    /\ call.teeth_count = 32
    /\ Len(NewOps) = 3
    /\ CountVerb(NewOps[1].path, "cubic") = 32 + 10 + 20

Verbs(path) == [k \in 1..Len(path) |-> path[k].verb]

\* C7 as claimed: the triangle path is one closed contour of 4 cubics and no
\* line when rounded, of 4 lines and no cubic when not.
C7_FourSegments ==
    (IsTriangle /\ pc = "returned") =>
        /\ AllContoursClosed(NewOps[1].path)
        /\ CountVerb(NewOps[1].path, "move") = 1
        /\ CountVerb(NewOps[1].path, "cubic") = IF call.wankel THEN 4 ELSE 0
        /\ CountVerb(NewOps[1].path, "line") = IF call.wankel THEN 0 ELSE 4

\* C7, amended: the triangle path is one closed contour: a move, then 3
\* cubics and no line when rounded, 3 lines and no cubic when not, then the
\* close; in vertex mode and in outline mode alike.
C7_ThreeSegments ==
    (IsTriangle /\ pc = "returned") =>
        Verbs(NewOps[1].path) =
            IF call.wankel
            THEN <<"move", "cubic", "cubic", "cubic", "close">>
            ELSE <<"move", "line", "line", "line", "close">>

C7_Witness ==
    /\ IsTriangle /\ pc = "returned"
    /\ call.wankel
    /\ call.vertex = None
    /\ CountVerb(NewOps[1].path, "cubic") = 3

Translated(center) ==
    [t |-> "translate", x |-> center[1], y |-> center[2], degrees |-> F32Zero]

Rotated(degrees) == [t |-> "rotate", x |-> 0, y |-> 0, degrees |-> degrees]

\* C8: in chain_ring the two draws of the path happen under translate then
\* rotate, two saves deep; the ridge circle is drawn under the translate
\* alone, one save deep; and on return the transform and the save stack are
\* those of the entry.  In render_frame every triangle therefore draws under
\* the transform and the stack depth the canvas came with.
C8_SaveRestore ==
    /\ IsChainRing =>
          /\ Len(NewOps) = 3
          /\ \A k \in 1..2 :
                /\ NewOps[k].op = "draw_path"
                /\ NewOps[k].ctm = call.canvas.ctm
                      \o <<Translated(call.center), Rotated(call.rotation)>>
                /\ NewOps[k].depth = Len(call.canvas.stack) + 2
          /\ NewOps[3].op = "draw_circle"
          /\ NewOps[3].ctm = call.canvas.ctm \o <<Translated(call.center)>>
          /\ NewOps[3].depth = Len(call.canvas.stack) + 1
          /\ canvas.ctm = call.canvas.ctm
          /\ canvas.stack = call.canvas.stack
    /\ IsRenderFrame =>
          /\ Len(NewOps) = 11
          /\ \A k \in 4..11 :
                /\ NewOps[k].ctm = call.canvas.ctm
                /\ NewOps[k].depth = Len(call.canvas.stack)
          /\ canvas.ctm = call.canvas.ctm
          /\ canvas.stack = call.canvas.stack

\* chain_ring returned on a canvas that came with a transform and a save.
C8_Witness ==
    /\ IsChainRing
    /\ call.canvas.ctm # <<>>
    /\ call.canvas.stack # <<>>
    /\ call.rotation = F32FromInt(60)
    /\ Len(NewOps[1].ctm) = Len(call.canvas.ctm) + 2
    /\ canvas.stack = call.canvas.stack

SteelToRust(shader) ==
    /\ shader.kind = "radial"
    /\ shader.colors = <<"0xff555555", "0xff7b492d">>

\* C9 as claimed: three draws; the path filled with the steel-to-rust
\* gradient, the path stroked without shader in 0xff592e1f, and the ridge
\* circle of radius ridge_radius filled with a gradient shader.
C9_RidgeFilled ==
    IsChainRing =>
        /\ Len(NewOps) = 3
        /\ NewOps[1].op = "draw_path"
        /\ NewOps[1].paint.style = "Fill"
        /\ SteelToRust(NewOps[1].paint.shader)
        /\ NewOps[2].op = "draw_path"
        /\ NewOps[2].path = NewOps[1].path
        /\ NewOps[2].paint.style = "Stroke"
        /\ NewOps[2].paint.shader = NoShader
        /\ NewOps[2].paint.color = "0xff592e1f"
        /\ NewOps[3].op = "draw_circle"
        /\ NewOps[3].circle.radius = F32Mul(F32FromInt(call.radius), F32Lit(85, 100))
        /\ NewOps[3].paint.style = "Fill"
        /\ NewOps[3].paint.shader.kind = "radial"

\* C9, amended: three draws; the path filled with the steel-to-rust gradient,
\* the path stroked without shader in 0xff592e1f, and the ridge circle of
\* radius ridge_radius (0.85 of the radius: 340 for 400) drawn with the
\* style still Stroke, the stroke width of the path outline, and the
\* gradient shader 0xff592e1f to 0xff885543: a stroked outline, not a disc.
C9_RidgeStroked ==
    IsChainRing =>
        /\ Len(NewOps) = 3
        /\ NewOps[1].op = "draw_path"
        /\ NewOps[1].paint.style = "Fill"
        /\ SteelToRust(NewOps[1].paint.shader)
        /\ NewOps[2].op = "draw_path"
        /\ NewOps[2].path = NewOps[1].path
        /\ NewOps[2].paint.style = "Stroke"
        /\ NewOps[2].paint.shader = NoShader
        /\ NewOps[2].paint.color = "0xff592e1f"
        /\ NewOps[3].op = "draw_circle"
        /\ NewOps[3].circle.radius = F32Mul(F32FromInt(call.radius), F32Lit(85, 100))
        /\ call.radius = 400 => NewOps[3].circle.radius = F32FromInt(340)
        /\ NewOps[3].paint.style = "Stroke"
        /\ NewOps[3].paint.stroke_width = NewOps[2].paint.stroke_width
        /\ NewOps[3].paint.shader.kind = "radial"
        /\ NewOps[3].paint.shader.colors = <<"0xff592e1f", "0xff885543">>

C9_Witness ==
    /\ IsChainRing
    /\ call.radius = 400
    /\ Len(NewOps) = 3
    /\ NewOps[3].op = "draw_circle"
    /\ NewOps[3].paint.style = "Stroke"

DrawSteps ==
    <<"frame += 1", "clear", "render_frame", "flush_and_submit", "swap_buffers">>

\* C10: an iteration of the host loop that draws does, in this order and
\* with nothing else, frame += 1, clear to white, one render_frame, flush,
\* swap; the canvas then holds the clear followed by the eleven draws of the
\* nine generator calls and no other clear; and the iteration handled a
\* RedrawRequested event or started more than 1/20 s after the previous
\* timed frame.
C10_DrawSequence ==
    [][(steps' # <<>>) =>
        /\ steps' = DrawSteps
        /\ frame' = 1 + (IF event' = "KeyboardInput"
                         THEN saturating_sub(frame, 10) ELSE frame)
        /\ Len(canvas'.ops) = 12
        /\ canvas'.ops[1].op = "clear"
        /\ canvas'.ops[1].paint.color = WHITE
        /\ \A k \in 2..12 : canvas'.ops[k].op # "clear"
        /\ NineCalls(canvas'.calls)
        /\ \/ event' = "RedrawRequested"
           \/ now' - previous_frame_start > FRAME_DURATION]_vars

\* A frame drawn on the timer alone, by an event that asks for no redraw.
C10_Witness ==
    /\ steps = DrawSteps
    /\ event = "Other"
    /\ previous_frame_start = now
    /\ now > FRAME_DURATION
    /\ Len(canvas.ops) = 12

\* C11: whatever the events, every call of render_frame by the host loop has
\* fps 12, bpm 60 and a frame argument in 0..359, so that frame + 1 is at
\* most the cycle length 360, the subtraction does not underflow (the call
\* neither panics nor wraps) and the value returned is 359 - frame, in
\* 0..359; the frame counter is never below 0.
C11_HostCallsInCycle ==
    /\ frame >= 0
    /\ pc = "host"
    /\ call.fn = "render_frame" =>
          /\ call.fps = 12 /\ call.bpm = 60
          /\ call.frame \in 0..359
          /\ call.frame = frame % 360
          /\ frame_count(call.fps, call.bpm) = 360
          /\ call.frame + 1 <= frame_count(call.fps, call.bpm)
          /\ ret.status = "returned"
          /\ ~ret.wrapped
          /\ ret.value = 359 - call.frame
          /\ ret.value \in 0..359

\* The counter has passed a whole turn and the call was made for frame 0.
C11_Witness ==
    /\ frame = 360
    /\ call.fn = "render_frame"
    /\ call.frame = 0
    /\ ret.value = 359
    /\ steps = DrawSteps

====
